---- MODULE Spec2Model ----
(***************************************************************************)
(* Weighted linear regression with errors on the dependent variable:       *)
(* samples/wlr.py (linregress_with_errors) and its AiiDA workflow twin     *)
(* calc_functions/wlr_functions.py (wf_linregress_with_errors).            *)
(*                                                                         *)
(* Numbers are IEEE-754 values: NaN, +infinity, -infinity, or a finite     *)
(* value held as a reduced fraction n/d.  Every arithmetic operation       *)
(* computes the exact result and then rounds it (Rnd).  The variable arith *)
(* selects the rounding: "float" rounds to the nearest value with MantBits *)
(* significant bits, ties to even, as binary floating point does (float64  *)
(* has 53 such bits; the exponent range is not bounded here); "exact"      *)
(* does not round, which is the algorithm over the rationals.  Signed      *)
(* zeros are not distinguished (no operation of the program divides by a   *)
(* zero whose sign could matter: 0 ** -2 is +infinity for either sign).    *)
(***************************************************************************)
EXTENDS Integers, Sequences, FiniteSets, TLC

VARIABLES arith, l_x, l_y, l_y_err, err_dtype, results, wf_results

vars == <<arith, l_x, l_y, l_y_err, err_dtype, results, wf_results>>

\* Longest input sequence of the general specification.
MaxLen == 2

\* Significant bits of a floating-point value when arith = "float".
MantBits == 4

-----------------------------------------------------------------------------
(* Values *)

NaN == [k |-> "nan", n |-> 0, d |-> 1]

PInf == [k |-> "inf", n |-> 1, d |-> 1]

NInf == [k |-> "inf", n |-> -1, d |-> 1]

\* A field that was never assigned (the call raised before building it).
Absent == [k |-> "absent", n |-> 0, d |-> 1]

Abs(i) == IF i < 0 THEN -i ELSE i

Sign(i) == IF i < 0 THEN -1 ELSE IF i > 0 THEN 1 ELSE 0

RECURSIVE GCD(_, _)
GCD(a, b) == IF b = 0 THEN a ELSE GCD(b, a % b)

\* The finite value n/d (d # 0) as a reduced fraction with d > 0.
Fin(n, d) ==
    LET g == GCD(Abs(n), Abs(d))
        s == IF d < 0 THEN -1 ELSE 1
    IN  [k |-> "fin", n |-> s * (n \div g), d |-> s * (d \div g)]

IntVal(i) == Fin(i, 1)

Zero == IntVal(0)

One == IntVal(1)

IsNaN(a) == a.k = "nan"

IsInf(a) == a.k = "inf"

\* A real number: a fraction, or the exact square root of one.
IsFinite(a) == a.k \in {"fin", "sqrt"}

\* Largest e with 2^e <= a/d, for a > 0 and d > 0.
RECURSIVE FloorLog2(_, _)
FloorLog2(a, d) ==
    IF a >= d
    THEN IF a >= 2 * d THEN 1 + FloorLog2(a, 2 * d) ELSE 0
    ELSE FloorLog2(2 * a, d) - 1

\* N/D rounded to the nearest integer, ties to the even one.
RoundHalfEven(N, D) ==
    LET m0 == N \div D
        r  == N % D
    IN  IF 2 * r > D \/ (2 * r = D /\ m0 % 2 = 1) THEN m0 + 1 ELSE m0

\* The finite value with p significant bits nearest to n/d (n/d # 0).
RoundTo(p, n, d) ==
    LET a == Abs(n)
        e == FloorLog2(a, d)
        s == p - 1 - e
        m == IF s >= 0 THEN RoundHalfEven(a * 2^s, d)
                       ELSE RoundHalfEven(a, d * 2^(-s))
    IN  IF s >= 0 THEN Fin(Sign(n) * m, 2^s) ELSE Fin(Sign(n) * m * 2^(-s), 1)

\* The result of an operation whose exact value is n/d.
Rnd(n, d) ==
    IF n = 0 THEN Zero
    ELSE IF arith = "float" THEN RoundTo(MantBits, n, d)
    ELSE Fin(n, d)

\* Whether a finite value is one the arithmetic can hold.
Representable(a) == a.k # "fin" \/ Rnd(a.n, a.d) = a

-----------------------------------------------------------------------------
(* IEEE-754 arithmetic *)

FNeg(a) == IF a.k = "fin" \/ a.k = "inf" THEN [a EXCEPT !.n = -a.n] ELSE a

FAdd(a, b) ==
    IF IsNaN(a) \/ IsNaN(b) THEN NaN
    ELSE IF IsInf(a) /\ IsInf(b) THEN (IF a.n = b.n THEN a ELSE NaN)
    ELSE IF IsInf(a) THEN a
    ELSE IF IsInf(b) THEN b
    ELSE Rnd(a.n * b.d + b.n * a.d, a.d * b.d)

FSub(a, b) == FAdd(a, FNeg(b))

FMul(a, b) ==
    IF IsNaN(a) \/ IsNaN(b) THEN NaN
    ELSE IF IsInf(a) \/ IsInf(b)
         THEN (IF a.n = 0 \/ b.n = 0 THEN NaN
               ELSE IF Sign(a.n) = Sign(b.n) THEN PInf ELSE NInf)
    ELSE Rnd(a.n * b.n, a.d * b.d)

FDiv(a, b) ==
    IF IsNaN(a) \/ IsNaN(b) THEN NaN
    ELSE IF IsInf(a) THEN (IF IsInf(b) THEN NaN
                           ELSE IF (a.n < 0) # (b.n < 0) THEN NInf ELSE PInf)
    ELSE IF IsInf(b) THEN Zero
    ELSE IF b.n = 0 THEN (IF a.n = 0 THEN NaN ELSE IF a.n > 0 THEN PInf ELSE NInf)
    ELSE Rnd(a.n * b.d, a.d * b.n)

\* x ** 2
FSquare(a) == FMul(a, a)

\* x ** -2: a zero gives +infinity, an infinity gives 0.
FPowM2(a) ==
    IF IsNaN(a) THEN NaN
    ELSE IF IsInf(a) THEN Zero
    ELSE IF a.n = 0 THEN PInf
    ELSE Rnd(a.d * a.d, a.n * a.n)

\* Largest integer whose square is at most x (x >= 0).
ISqrt(x) == CHOOSE m \in 0..(x + 1) : m * m <= x /\ (m + 1) * (m + 1) > x

IsSquare(x) == ISqrt(x) * ISqrt(x) = x

\* sqrt(n/d) to p significant bits, for n/d > 0.
SqrtTo(p, n, d) ==
    LET e  == FloorLog2(n, d)
        er == IF e >= 0 THEN e \div 2 ELSE -((1 - e) \div 2)
        s  == p - 1 - er
        \* n/d in units of ulp^2, ulp = 2^(-s)
        N  == IF s >= 0 THEN n * 2^(2 * s) ELSE n
        D  == IF s >= 0 THEN d ELSE d * 2^(-2 * s)
        m0 == ISqrt(N \div D)
        \* round up when (m0 + 1/2)^2 < N/D, or on a tie with m0 odd
        up == \/ (2 * m0 + 1) * (2 * m0 + 1) * D < 4 * N
              \/ ((2 * m0 + 1) * (2 * m0 + 1) * D = 4 * N /\ m0 % 2 = 1)
        m  == IF up THEN m0 + 1 ELSE m0
    IN  IF s >= 0 THEN Fin(m, 2^s) ELSE Fin(m * 2^(-s), 1)

\* np.sqrt: NaN for a negative argument.  In exact arithmetic an irrational
\* root is kept as the root of its radicand.
FSqrt(a) ==
    IF IsNaN(a) THEN NaN
    ELSE IF IsInf(a) THEN (IF a.n > 0 THEN PInf ELSE NaN)
    ELSE IF a.n < 0 THEN NaN
    ELSE IF a.n = 0 THEN Zero
    ELSE IF arith = "float" THEN SqrtTo(MantBits, a.n, a.d)
    ELSE IF IsSquare(a.n) /\ IsSquare(a.d) THEN Fin(ISqrt(a.n), ISqrt(a.d))
    ELSE [k |-> "sqrt", n |-> a.n, d |-> a.d]

\* Comparisons: every comparison with NaN is false.
FLt(a, b) ==
    IF IsNaN(a) \/ IsNaN(b) THEN FALSE
    ELSE IF IsInf(a) THEN a.n < 0 /\ ~(IsInf(b) /\ b.n < 0)
    ELSE IF IsInf(b) THEN b.n > 0
    ELSE a.n * b.d < b.n * a.d

FGt(a, b) == FLt(b, a)

FEq(a, b) == ~IsNaN(a) /\ ~IsNaN(b) /\ a = b

FLe(a, b) == FLt(a, b) \/ FEq(a, b)

-----------------------------------------------------------------------------
(* Arrays *)

Indices(l) == 1..Len(l)

\* np.nansum: NaN entries count as 0, the rest are added left to right
\* (an array of fewer than 8 entries is summed by a plain loop).
RECURSIVE NanSumFrom(_, _, _)
NanSumFrom(l, i, acc) ==
    IF i > Len(l) THEN acc
    ELSE NanSumFrom(l, i + 1, FAdd(acc, IF IsNaN(l[i]) THEN Zero ELSE l[i]))

nansum(l) == NanSumFrom(l, 1, Zero)

\* The result of a call: returned with its five fields, or raised.
Returned(slope, intercept, slope_err, intercept_err, slope_intercept_covar) ==
    [st |-> "returned", exc |-> "none",
     slope |-> slope, intercept |-> intercept, slope_err |-> slope_err,
     intercept_err |-> intercept_err,
     slope_intercept_covar |-> slope_intercept_covar]

Raised(e) ==
    [st |-> "raised", exc |-> e,
     slope |-> Absent, intercept |-> Absent, slope_err |-> Absent,
     intercept_err |-> Absent, slope_intercept_covar |-> Absent]

Idle ==
    [st |-> "idle", exc |-> "none",
     slope |-> Absent, intercept |-> Absent, slope_err |-> Absent,
     intercept_err |-> Absent, slope_intercept_covar |-> Absent]

-----------------------------------------------------------------------------
(* samples/wlr.py *)

\* A wrong exponent: l_y_err ** -1.
Weights_PowM1(e) == [i \in Indices(e) |-> FDiv(One, e[i])]

\* l_w = l_y_err ** -2
Weights(e) == [i \in Indices(e) |-> FPowM2(e[i])]

\* The weighted means without the zero-weight catch: always divided by w.
Moments_NoCatch(x, y, e) ==
    LET l_w == Weights(e)
        w   == nansum(l_w)
    IN  [w   |-> w,
         xm  |-> FDiv(nansum([i \in Indices(x) |-> FMul(x[i], l_w[i])]), w),
         x2m |-> FDiv(nansum([i \in Indices(x) |->
                                FMul(FSquare(x[i]), l_w[i])]), w),
         ym  |-> FDiv(nansum([i \in Indices(x) |-> FMul(y[i], l_w[i])]), w),
         xym |-> FDiv(nansum([i \in Indices(x) |->
                                FMul(FMul(x[i], y[i]), l_w[i])]), w)]

\* w and the four weighted means, with the zero-weight catch.
Moments(x, y, e) ==
    LET l_w == Weights(e)
        w   == nansum(l_w)
    IN  IF FLe(w, Zero)
        THEN [w |-> Zero, xm |-> Zero, x2m |-> Zero, ym |-> Zero, xym |-> Zero]
        ELSE [w   |-> w,
              xm  |-> FDiv(nansum([i \in Indices(x) |-> FMul(x[i], l_w[i])]), w),
              x2m |-> FDiv(nansum([i \in Indices(x) |->
                                     FMul(FSquare(x[i]), l_w[i])]), w),
              ym  |-> FDiv(nansum([i \in Indices(x) |-> FMul(y[i], l_w[i])]), w),
              xym |-> FDiv(nansum([i \in Indices(x) |->
                                     FMul(FMul(x[i], y[i]), l_w[i])]), w)]

Dx2m(m) == FSub(m.x2m, FSquare(m.xm))

\* The covariance without the product of the means.
Dxym_Raw(m) == m.xym

Dxym(m) == FSub(m.xym, FMul(m.xm, m.ym))

\* if not (dx2m > 0)
VerticalFit(dx2m) == ~FGt(dx2m, Zero)

\* if dx2m <= 0 or w == 0
ErrDegenerate(dx2m, w) == FLe(dx2m, Zero) \/ FEq(w, Zero)

\* The solver, from the moments on.
Solve(m) ==
    LET dx2m == Dx2m(m)
        dxym == Dxym(m)
        slope == IF VerticalFit(dx2m) THEN PInf ELSE FDiv(dxym, dx2m)
        intercept == IF VerticalFit(dx2m) THEN NaN
                     ELSE FSub(m.ym, FMul(m.xm, slope))
        deg == ErrDegenerate(dx2m, m.w)
        slope_err == IF deg THEN PInf
                     ELSE FSqrt(FDiv(One, FMul(m.w, dx2m)))
        intercept_err ==
            IF deg THEN NaN
            ELSE FSqrt(FDiv(FAdd(One, FDiv(FSquare(m.xm), dx2m)), m.w))
        slope_intercept_covar ==
            IF deg THEN NaN ELSE FDiv(FNeg(m.xm), FMul(m.w, dx2m))
    IN  Returned(slope, intercept, slope_err, intercept_err,
                 slope_intercept_covar)

\* An integer array raised to a negative integer power raises ValueError.
linregress_with_errors(x, y, e, dtype) ==
    IF dtype = "int64" THEN Raised("ValueError") ELSE Solve(Moments(x, y, e))

-----------------------------------------------------------------------------
(* calc_functions/wlr_functions.py: the calculation functions *)

RECURSIVE AddAll(_, _, _)
AddAll(s, args, i) ==
    IF i > Len(args) THEN s ELSE AddAll(FAdd(s, args[i]), args, i + 1)

add(x, y, args) == AddAll(FAdd(x, y), args, 1)

subtract(x, y) == FSub(x, y)

RECURSIVE MulAll(_, _, _)
MulAll(p, args, i) ==
    IF i > Len(args) THEN p ELSE MulAll(FMul(p, args[i]), args, i + 1)

multiply(x, y, args) == MulAll(FMul(x, y), args, 1)

RECURSIVE AMulAll(_, _, _)
AMulAll(p, args, i) ==
    IF i > Len(args) THEN p
    ELSE AMulAll([j \in Indices(p) |-> FMul(p[j], args[i][j])], args, i + 1)

a_multiply(x, y, args) ==
    AMulAll([j \in Indices(x) |-> FMul(x[j], y[j])], args, 1)

divide(x, y) == FDiv(x, y)

square(x) == FSquare(x)

a_square(x) == [j \in Indices(x) |-> FSquare(x[j])]

sqrt(x) == FSqrt(x)

sum_array(x) == nansum(x)

get_weights_from_errors(e) == [j \in Indices(e) |-> FPowM2(e[j])]

\* A value of the workflow: an AiiDA node (which has .value) or a bare
\* Python/numpy number such as np.inf (which has not).  On the normal path
\* every step is taken to succeed, as tests/wlr_test.py expects.
Node(v) == [node |-> TRUE, v |-> v]

Bare(v) == [node |-> FALSE, v |-> v]

\* The weighted moments as the workflow computes them.
wf_moments(x, y, e) ==
    LET l_w == get_weights_from_errors(e)
        w   == sum_array(l_w)
    IN  IF FLe(w, Zero)
        THEN [w |-> Zero, xm |-> Zero, x2m |-> Zero, ym |-> Zero, xym |-> Zero]
        ELSE [w   |-> w,
              xm  |-> divide(sum_array(a_multiply(x, l_w, <<>>)), w),
              x2m |-> divide(sum_array(a_multiply(a_square(x), l_w, <<>>)), w),
              ym  |-> divide(sum_array(a_multiply(y, l_w, <<>>)), w),
              xym |-> divide(sum_array(a_multiply(x, y, <<l_w>>)), w)]

\* Dict({"slope": slope.value, ...}): a bare number has no .value.
wf_dict(slope, intercept, slope_err, intercept_err, slope_intercept_covar) ==
    IF /\ slope.node /\ intercept.node /\ slope_err.node
       /\ intercept_err.node /\ slope_intercept_covar.node
    THEN Returned(slope.v, intercept.v, slope_err.v, intercept_err.v,
                  slope_intercept_covar.v)
    ELSE Raised("AttributeError")

wf_solve(m) ==
    LET dx2m == subtract(m.x2m, square(m.xm))
        dxym == subtract(m.xym, multiply(m.xm, m.ym, <<>>))
        vert == ~FGt(dx2m, Zero)
        slope == IF vert THEN Bare(PInf) ELSE Node(divide(dxym, dx2m))
        intercept ==
            IF vert THEN Bare(NaN)
            ELSE Node(subtract(m.ym, multiply(m.xm, slope.v, <<>>)))
        deg == FLe(dx2m, Zero) \/ FEq(m.w, Zero)
        slope_err ==
            IF deg THEN Bare(PInf)
            ELSE Node(sqrt(divide(One, multiply(m.w, dx2m, <<>>))))
        intercept_err ==
            IF deg THEN Bare(NaN)
            ELSE Node(sqrt(divide(add(One, divide(square(m.xm), dx2m), <<>>),
                                  m.w)))
        slope_intercept_covar ==
            IF deg THEN Bare(NaN)
            ELSE Node(divide(FNeg(m.xm), multiply(m.w, dx2m, <<>>)))
    IN  wf_dict(slope, intercept, slope_err, intercept_err,
                slope_intercept_covar)

\* np.power of an integer array to -2 raises ValueError, as ** does.
wf_linregress_with_errors(x, y, e, dtype) ==
    IF dtype = "int64" THEN Raised("ValueError")
    ELSE wf_solve(wf_moments(x, y, e))

-----------------------------------------------------------------------------
(* The state machine: an input is chosen, then each implementation may be  *)
(* called on it.                                                           *)

\* Input values of the general specification.
XVals == {NaN, IntVal(0), IntVal(1)}

YVals == {NaN, IntVal(0), IntVal(1)}

EVals == {NaN, IntVal(0), IntVal(1), IntVal(2)}

Ariths == {"exact", "float"}

\* np.asarray gives an integer array for a non-empty list of Python ints.
CanBeIntArray(e) ==
    Len(e) > 0 /\ \A i \in Indices(e) : e[i].k = "fin" /\ e[i].d = 1

AllRepresentable(l) == \A i \in Indices(l) : Representable(l[i])

InitWith(As, Lens, Xs, Ys, Es) ==
    /\ arith \in As
    /\ \E n \in Lens :
          /\ l_x \in [1..n -> Xs]
          /\ l_y \in [1..n -> Ys]
          /\ l_y_err \in [1..n -> Es]
    /\ AllRepresentable(l_x) /\ AllRepresentable(l_y) /\ AllRepresentable(l_y_err)
    /\ err_dtype \in {"float64"} \cup
                     (IF CanBeIntArray(l_y_err) THEN {"int64"} ELSE {})
    /\ results = Idle
    /\ wf_results = Idle

Init == InitWith(Ariths, 0..MaxLen, XVals, YVals, EVals)

CallLinregress ==
    /\ results.st = "idle"
    /\ results' = linregress_with_errors(l_x, l_y, l_y_err, err_dtype)
    /\ UNCHANGED <<arith, l_x, l_y, l_y_err, err_dtype, wf_results>>

CallWf ==
    /\ wf_results.st = "idle"
    /\ wf_results' = wf_linregress_with_errors(l_x, l_y, l_y_err, err_dtype)
    /\ UNCHANGED <<arith, l_x, l_y, l_y_err, err_dtype, results>>

Next == CallLinregress \/ CallWf

Spec == Init /\ [][Next]_vars

\* The plain function alone.
NextPlain == CallLinregress

\* Floating point, constant x: every row has the same finite x, y is finite
\* and every error is finite and positive.
ConstXVals == {IntVal(3), IntVal(5), IntVal(7), IntVal(11), IntVal(13)}

ConstYVals == {IntVal(0), IntVal(1)}

ConstEVals == {IntVal(1), IntVal(2), IntVal(3)}

InitFloat ==
    /\ InitWith({"float"}, 1..(MaxLen + 1), ConstXVals, ConstYVals, ConstEVals)
    /\ \A i, j \in Indices(l_x) : l_x[i] = l_x[j]
    /\ err_dtype = "float64"

SpecFloat == InitFloat /\ [][NextPlain]_vars

\* Exact arithmetic on finite, error-free data, and the reference scenario
\* of tests/wlr_test.py.
ExactXVals == {IntVal(0), IntVal(1), IntVal(2)}

ExactYVals == {IntVal(0), IntVal(1)}

ExactEVals == {IntVal(1), IntVal(2), IntVal(-1)}

RefX == <<IntVal(1), IntVal(2), IntVal(4), IntVal(8), IntVal(7)>>

RefY == <<IntVal(10), IntVal(11), IntVal(9), IntVal(7), IntVal(12)>>

RefYErr == <<Fin(1, 10), Fin(2, 10), Fin(1, 10), Fin(2, 10), Fin(4, 10)>>

IsReference == l_x = RefX /\ l_y = RefY /\ l_y_err = RefYErr

InitReference ==
    /\ arith = "exact"
    /\ l_x = RefX /\ l_y = RefY /\ l_y_err = RefYErr
    /\ err_dtype = "float64"
    /\ results = Idle
    /\ wf_results = Idle

InitExact ==
    \/ /\ InitWith({"exact"}, 0..(MaxLen + 1), ExactXVals, ExactYVals, ExactEVals)
       /\ err_dtype = "float64"
    \/ InitReference

SpecExact == InitExact /\ [][NextPlain]_vars

\* Rows with a missing x or y among rows whose errors are valid.
DropXVals == {NaN, IntVal(0), IntVal(1), IntVal(2)}

DropYVals == {NaN, IntVal(0), IntVal(1)}

DropEVals == {IntVal(1), IntVal(2)}

InitDrop ==
    /\ InitWith(Ariths, 1..(MaxLen + 1), DropXVals, DropYVals, DropEVals)
    /\ err_dtype = "float64"

SpecDrop == InitDrop /\ [][NextPlain]_vars

-----------------------------------------------------------------------------
(* Reference arithmetic for the properties: exact fractions, independent   *)
(* of the program's operations and of arith.                               *)

RAdd(a, b) == Fin(a.n * b.d + b.n * a.d, a.d * b.d)

RSub(a, b) == Fin(a.n * b.d - b.n * a.d, a.d * b.d)

RMul(a, b) == Fin(a.n * b.n, a.d * b.d)

RDiv(a, b) == Fin(a.n * b.d, a.d * b.n)

RLt(a, b) == a.n * b.d < b.n * a.d

RECURSIVE RSum(_, _)
RSum(f, n) == IF n = 0 THEN Zero ELSE RAdd(RSum(f, n - 1), f[n])

\* The square of a real result (a fraction or an exact root).
SquareOf(v) == IF v.k = "sqrt" THEN Fin(v.n, v.d) ELSE RMul(v, v)

NonNegative(v) == v.k = "sqrt" \/ (v.k = "fin" /\ v.n >= 0)

AllFin(l) == \A i \in Indices(l) : l[i].k = "fin"

\* The inverse-variance weighted moments of finite data with nonzero errors,
\* with the weighted variance of x and covariance of x and y.
RefMoments ==
    LET n   == Len(l_x)
        w   == [i \in 1..n |-> RDiv(One, RMul(l_y_err[i], l_y_err[i]))]
        W   == RSum(w, n)
        xm  == RDiv(RSum([i \in 1..n |-> RMul(l_x[i], w[i])], n), W)
        x2m == RDiv(RSum([i \in 1..n |-> RMul(RMul(l_x[i], l_x[i]), w[i])], n), W)
        ym  == RDiv(RSum([i \in 1..n |-> RMul(l_y[i], w[i])], n), W)
        xym == RDiv(RSum([i \in 1..n |-> RMul(RMul(l_x[i], l_y[i]), w[i])], n), W)
    IN  [W |-> W, xm |-> xm, ym |-> ym,
         dx2m |-> RSub(x2m, RMul(xm, xm)),
         dxym |-> RSub(xym, RMul(xm, ym))]

\* All entries finite and every error nonzero (so that W > 0).
FiniteData ==
    /\ Len(l_x) > 0
    /\ AllFin(l_x) /\ AllFin(l_y) /\ AllFin(l_y_err)
    /\ \A i \in Indices(l_y_err) : l_y_err[i].n # 0

\* All entries finite, every error nonzero, W > 0 and dx2m > 0.
NonDegenerate ==
    FiniteData /\ RLt(Zero, RefMoments.W) /\ RLt(Zero, RefMoments.dx2m)

\* lo < v < hi for fractions lo = ln/ld and hi = hn/hd.
Between(v, ln, ld, hn, hd) == RLt(Fin(ln, ld), v) /\ RLt(v, Fin(hn, hd))

Sentinel == Returned(PInf, NaN, PInf, NaN, NaN)

M == Moments(l_x, l_y, l_y_err)

-----------------------------------------------------------------------------
(* Properties *)

\* C1: on non-degenerate input (all entries finite, every error nonzero,
\* W > 0, dx2m > 0) the result is the closed form over the inverse-variance
\* weighted moments: slope = dxym/dx2m, intercept = ym - xm*slope,
\* slope_err = sqrt(1/(W*dx2m)), intercept_err = sqrt((1 + xm^2/dx2m)/W),
\* covariance = -xm/(W*dx2m); on the reference scenario these are about
\* -0.349951, 10.54741, 0.028312, 0.107672 and -0.0024829.
C1_ClosedForm ==
    (results.st # "idle" /\ FiniteData) =>
        LET m     == RefMoments
            slope == RDiv(m.dxym, m.dx2m)
            WD    == RMul(m.W, m.dx2m)
        IN  (RLt(Zero, m.W) /\ RLt(Zero, m.dx2m)) =>
            /\ results.st = "returned"
            /\ results.slope = slope
            /\ results.intercept = RSub(m.ym, RMul(m.xm, slope))
            /\ NonNegative(results.slope_err)
            /\ SquareOf(results.slope_err) = RDiv(One, WD)
            /\ NonNegative(results.intercept_err)
            /\ SquareOf(results.intercept_err) =
                   RDiv(RAdd(One, RDiv(RMul(m.xm, m.xm), m.dx2m)), m.W)
            /\ results.slope_intercept_covar = RDiv(Fin(-m.xm.n, m.xm.d), WD)
            /\ IsReference =>
                  /\ Between(results.slope, -349952, 1000000, -349950, 1000000)
                  /\ Between(results.intercept, 1054740, 100000, 1054742, 100000)
                  /\ Between(SquareOf(results.slope_err),
                             8015, 10000000, 8016, 10000000)
                  /\ Between(SquareOf(results.intercept_err),
                             11593, 1000000, 11594, 1000000)
                  /\ Between(results.slope_intercept_covar,
                             -24829, 10000000, -24828, 10000000)

\* The reference scenario has been computed.
C1_Witness == results.st = "returned" /\ IsReference /\ NonDegenerate

\* Every x is the same finite value, y is finite, every error is finite
\* and positive.
ConstantX ==
    /\ Len(l_x) > 0
    /\ AllFin(l_x) /\ AllFin(l_y) /\ AllFin(l_y_err)
    /\ \A i, j \in Indices(l_x) : l_x[i] = l_x[j]
    /\ \A i \in Indices(l_y_err) : l_y_err[i].n > 0

\* C2: when all x are identical (y finite, errors finite and positive) the
\* result is exactly slope = +infinity, intercept = NaN, slope_err =
\* +infinity, intercept_err = NaN, slope_intercept_covar = NaN.
C2_ConstantXSentinel ==
    (results.st # "idle" /\ ConstantX) => results = Sentinel

AllNaN(l) == \A i \in Indices(l) : IsNaN(l[i])

\* C3: when the NaN-tolerant total weight is <= 0 (y_err all NaN, or empty
\* input) W and the four weighted means are 0 (nothing was divided by W),
\* dx2m is 0, and the result is slope = +infinity, intercept = NaN,
\* slope_err = +infinity, intercept_err = NaN, covariance = NaN, whatever
\* x and y are.
C3_ZeroWeight ==
    (results.st # "idle"
        /\ (AllNaN(l_y_err) \/ FLe(nansum(Weights(l_y_err)), Zero))) =>
        /\ M = [w |-> Zero, xm |-> Zero, x2m |-> Zero, ym |-> Zero, xym |-> Zero]
        /\ Dx2m(M) = Zero
        /\ results = Sentinel

\* A call on at least two rows whose errors are all NaN and whose x are
\* valid and distinct has returned.
C3_Witness ==
    /\ results.st = "returned"
    /\ Len(l_x) >= 2
    /\ AllNaN(l_y_err)
    /\ l_x[1] = IntVal(0) /\ l_x[2] = IntVal(1) /\ l_y[1] = IntVal(1)

RemoveAt(l, i) == [j \in 1..(Len(l) - 1) |-> IF j < i THEN l[j] ELSE l[j + 1]]

ResultFields(r) ==
    {r.slope, r.intercept, r.slope_err, r.intercept_err, r.slope_intercept_covar}

\* Row i has a NaN x or y and a valid error, every other row is valid, and
\* the other rows alone give W > 0 and dx2m > 0.
MissingRow(i) ==
    /\ IsNaN(l_x[i]) \/ IsNaN(l_y[i])
    /\ \A j \in Indices(l_x) \ {i} : l_x[j].k = "fin" /\ l_y[j].k = "fin"
    /\ LET m == Moments(RemoveAt(l_x, i), RemoveAt(l_y, i), RemoveAt(l_y_err, i))
       IN  FGt(m.w, Zero) /\ FGt(Dx2m(m), Zero)

\* C4: a row whose x or y is NaN (its error being valid) is excluded as if
\* absent: no field of the result is NaN and the result is that of the input
\* with the row removed.
C4_NaNRowExcluded ==
    results.st # "idle" =>
        \A i \in Indices(l_x) :
            MissingRow(i) =>
                /\ results.st = "returned"
                /\ NaN \notin ResultFields(results)
                /\ results = linregress_with_errors(RemoveAt(l_x, i),
                       RemoveAt(l_y, i), RemoveAt(l_y_err, i), err_dtype)

\* Row i alone has a zero error, every x and y is finite, and some other
\* row has a finite positive error.
ZeroErrorRow(i) ==
    /\ l_y_err[i] = Zero
    /\ AllFin(l_x) /\ AllFin(l_y)
    /\ \A j \in Indices(l_x) \ {i} : l_y_err[j] # Zero
    /\ \E j \in Indices(l_x) : l_y_err[j].k = "fin" /\ l_y_err[j].n > 0

\* C5: with exactly one zero-error row and another row of finite positive
\* error the call does not fail and the weighted means xm and ym are the x
\* and y of the zero-error row.
C5_ZeroErrorDominates ==
    (results.st # "idle" /\ err_dtype = "float64") =>
        \A i \in Indices(l_x) :
            ZeroErrorRow(i) =>
                results.st = "returned" /\ M.xm = l_x[i] /\ M.ym = l_y[i]

\* C6: whenever neither W <= 0 nor dx2m <= 0 holds, all five fields of the
\* result are finite.
C6_OtherwiseFinite ==
    (results.st = "returned"
        /\ ~FLe(nansum(Weights(l_y_err)), Zero)
        /\ ~FLe(Dx2m(M), Zero)) =>
        \A v \in ResultFields(results) : IsFinite(v)

\* C7: a call never raises: for every input it returns a record with all
\* five fields populated.
C7_NeverRaises ==
    results.st # "idle" =>
        results.st = "returned" /\ Absent \notin ResultFields(results)

\* C8: wherever the plain function returns, the workflow returns the same
\* five values.
C8_WorkflowSameResult ==
    (results.st = "returned" /\ wf_results.st # "idle") => wf_results = results

\* All errors are one finite nonzero value.
EqualErrors ==
    /\ FiniteData
    /\ \A i, j \in Indices(l_y_err) : l_y_err[i] = l_y_err[j]

\* Unweighted least squares: the sums n*Sxx - Sx^2 and n*Sxy - Sx*Sy.
Ols ==
    LET n   == Len(l_x)
        Sx  == RSum(l_x, n)
        Sy  == RSum(l_y, n)
        Sxx == RSum([i \in 1..n |-> RMul(l_x[i], l_x[i])], n)
        Sxy == RSum([i \in 1..n |-> RMul(l_x[i], l_y[i])], n)
        den == RSub(RMul(IntVal(n), Sxx), RMul(Sx, Sx))
        num == RSub(RMul(IntVal(n), Sxy), RMul(Sx, Sy))
    IN  [n |-> n, Sx |-> Sx, Sy |-> Sy, den |-> den, num |-> num]

\* C9: when every error is the same finite nonzero value e (of either sign)
\* the slope and intercept are those of unweighted ordinary least squares,
\* whatever e is.
C9_UnweightedLimit ==
    (results.st # "idle" /\ EqualErrors) =>
        LET o == Ols
        IN  RLt(Zero, o.den) =>
            LET slope == RDiv(o.num, o.den)
            IN  /\ results.st = "returned"
                /\ results.slope = slope
                /\ results.intercept =
                       RDiv(RSub(o.Sy, RMul(slope, o.Sx)), IntVal(o.n))

\* Three rows with every error -1 and a fit that is neither flat nor
\* vertical have been computed.
C9_Witness ==
    /\ results.st = "returned"
    /\ Len(l_x) = 3
    /\ \A i \in Indices(l_y_err) : l_y_err[i] = IntVal(-1)
    /\ results.slope.k = "fin" /\ results.slope.n # 0
    /\ results.intercept.k = "fin" /\ results.intercept.n # 0

\* C10: the vertical-fit branch is taken exactly when the degenerate
\* error/covariance branch is taken, so slope = +infinity if and only if
\* slope_err = +infinity.
C10_BranchesAgree ==
    results.st = "returned" =>
        /\ VerticalFit(Dx2m(M)) <=> ErrDegenerate(Dx2m(M), M.w)
        /\ results.slope = PInf <=> results.slope_err = PInf

====
